---------------------------- MODULE Spec2Model ----------------------------
(***************************************************************************)
(* A model of backend/main.py of the CAPM & Multi-Factor Analyzer: the     *)
(* ReturnSeries builder (DataFetcher.get_returns), the CAPM estimator      *)
(* (CAPMAnalyzer.calculate_capm), the factor synthesizer and multi-factor  *)
(* estimator (FactorAnalyzer), the portfolio aggregator (portfolio_capm)   *)
(* and the cached endpoints built on them.                                 *)
(*                                                                         *)
(* Floating-point numbers are modelled as exact rationals extended with    *)
(* NaN and the two infinities (rounding is not modelled).  A pandas Series *)
(* is a sequence of rows [d, v] with strictly increasing dates d; dates    *)
(* are day numbers, day 0 being a Monday.                                  *)
(***************************************************************************)
EXTENDS Integers, Sequences, FiniteSets, TLC

VARIABLES
    hist,       \* the market-data provider: ticker -> what Ticker(t).history() gives
    hashSeed,   \* the process's string-hash salt (fixed when the process starts)
    now,        \* the clock read by datetime.now(), in days
    rng,        \* the state of numpy's global generator np.random
    cache,      \* the module-level TTLCache: key -> cached response
    pc,         \* "ready": the inputs of a call are chosen; "done": it has returned
    call,       \* the operation invoked last, with its inputs
    outcome,    \* what that operation returned or raised
    factorLog,  \* history: ticker -> the last frame get_fama_french_factors returned for it
    prov,       \* history: which path produced each multi-factor record
    steps,      \* history: the collaborators the last operation called, in order
    served      \* history: the number of requests the process has answered

vars == <<hist, hashSeed, now, rng, cache, pc, call, outcome, factorLog, prov, steps, served>>

-----------------------------------------------------------------------------
(* Floats: <<"fin", n, d>> is the rational n/d in lowest terms with d > 0. *)

RECURSIVE GCD(_, _)
GCD(a, b) == IF b = 0 THEN a ELSE GCD(b, a % b)

Abs(n) == IF n < 0 THEN -n ELSE n

Sign(n) == IF n < 0 THEN -1 ELSE IF n = 0 THEN 0 ELSE 1

Fin(n, d) ==
    LET s == IF d < 0 THEN -1 ELSE 1
        g == GCD(Abs(n), Abs(d))
    IN  <<"fin", (s * n) \div g, (s * d) \div g>>

NaN == <<"nan", 0, 1>>

Inf(s) == <<"inf", s, 1>>

IsNaN(x) == x[1] = "nan"

IsFinite(x) == x[1] = "fin"

\* The sign of a float that is not NaN.
FSign(x) == IF x[1] = "inf" THEN x[2] ELSE Sign(x[2])

FNeg(x) == IF IsNaN(x) THEN NaN ELSE IF IsFinite(x) THEN Fin(-x[2], x[3]) ELSE Inf(-x[2])

FAdd(x, y) ==
    IF IsNaN(x) \/ IsNaN(y) THEN NaN
    ELSE IF IsFinite(x) /\ IsFinite(y)
         THEN LET g == GCD(x[3], y[3])
              IN  Fin(x[2] * (y[3] \div g) + y[2] * (x[3] \div g), x[3] * (y[3] \div g))
    ELSE IF IsFinite(x) THEN y
    ELSE IF IsFinite(y) THEN x
    ELSE IF x[2] = y[2] THEN x ELSE NaN

FSub(x, y) == FAdd(x, FNeg(y))

FMul(x, y) ==
    IF IsNaN(x) \/ IsNaN(y) THEN NaN
    ELSE IF IsFinite(x) /\ IsFinite(y)
         THEN LET g1 == GCD(Abs(x[2]), y[3])
                  g2 == GCD(Abs(y[2]), x[3])
              IN  Fin((x[2] \div g1) * (y[2] \div g2), (x[3] \div g2) * (y[3] \div g1))
    ELSE IF FSign(x) * FSign(y) = 0 THEN NaN
    ELSE Inf(FSign(x) * FSign(y))

\* x / y for a finite y other than zero.
FDiv(x, y) == FMul(x, Fin(y[3], y[2]))

FAbs(x) == IF IsNaN(x) THEN NaN ELSE IF IsFinite(x) THEN Fin(Abs(x[2]), x[3]) ELSE Inf(1)

\* x > y as IEEE compares: false whenever either side is NaN.
FGt(x, y) ==
    /\ ~IsNaN(x)
    /\ ~IsNaN(y)
    /\ IF IsFinite(x) /\ IsFinite(y) THEN x[2] * y[3] > y[2] * x[3]
       ELSE IF IsFinite(x) THEN y[2] < 0
       ELSE IF IsFinite(y) THEN x[2] > 0
       ELSE x[2] > y[2]

Zero == Fin(0, 1)

One == Fin(1, 1)

-----------------------------------------------------------------------------
(* Series: sequences of rows.                                              *)

Index(s) == {s[i].d : i \in DOMAIN s}

\* The row of s dated d (the date is in the index).
At(s, d) == s[CHOOSE i \in DOMAIN s : s[i].d = d]

\* Series.dropna(): the rows whose value is not NaN.
DropNaSeries(s) == SelectSeq(s, LAMBDA r : ~IsNaN(r.v))

\* s * c, s + c ... : arithmetic with a scalar, row by row.
MapSeries(s, F(_)) == [i \in DOMAIN s |-> [d |-> s[i].d, v |-> F(s[i].v)]]

-----------------------------------------------------------------------------
(* Outcomes of a call: a returned value, or a raised HTTPException.        *)

\* Body applied to `value`, with the value computed once.
With(value, Body(_)) == CHOOSE result \in {Body(v) : v \in {value}} : TRUE

Return(x) == [kind |-> "return", value |-> x]

HTTPException(code, msg) == [kind |-> "raise", status_code |-> code, detail |-> msg]

Idle == [kind |-> "none"]

-----------------------------------------------------------------------------
(* The market-data provider.  Ticker(t).history(period) either raises or   *)
(* gives a frame of closes on increasing dates; the closes are positive.   *)

Provided(rows) == [raises |-> FALSE, rows |-> rows]

Unavailable == [raises |-> TRUE, rows |-> <<>>]

\* hist['Close'].pct_change(): the first entry is undefined (NaN), entry i is
\* close[i] / close[i-1] - 1.
pct_change(rows) ==
    [i \in DOMAIN rows |->
        [d |-> rows[i].d,
         v |-> IF i = 1 THEN NaN
               ELSE FSub(FDiv(rows[i].close, rows[i - 1].close), One)]]

\* DataFetcher.get_returns, given what stock.history(period) answered.
get_returns(answer) ==
    IF answer.raises
    THEN HTTPException(400, "Error fetching data: provider error")
    ELSE IF Len(answer.rows) = 0                     \* hist.empty
    THEN HTTPException(400, "Error fetching data: No data found")
    ELSE Return(DropNaSeries(pct_change(answer.rows)))

-----------------------------------------------------------------------------
(* CAPMAnalyzer.calculate_capm                                             *)

TradingDays == 252

MinCapmRows == 10

\* A join on the asset's dates: one row per date of the asset series, the
\* market's value taken as zero on a date the market series does not have.
concat_asset_dates(asset_returns, market_returns) ==
    [i \in DOMAIN asset_returns |->
        [d |-> asset_returns[i].d, asset |-> asset_returns[i].v,
         market |-> IF asset_returns[i].d \in Index(market_returns)
                    THEN At(market_returns, asset_returns[i].d).v ELSE Zero]]

\* pd.concat([asset, market], axis=1, join='inner'): one row per date that is
\* in both indexes, carrying both values.
concat_inner(asset_returns, market_returns) ==
    LET asset_dates == Index(asset_returns)
        market_dates == Index(market_returns)
        asset_kept == SelectSeq(asset_returns, LAMBDA r : r.d \in market_dates)
        market_kept == SelectSeq(market_returns, LAMBDA r : r.d \in asset_dates)
    IN  [i \in DOMAIN asset_kept |->
            [d |-> asset_kept[i].d, asset |-> asset_kept[i].v,
             market |-> market_kept[i].v]]

\* A dropna that drops nothing: what calculate_capm would count if rows with
\* a missing value were kept.
dropna_keeps_all(frame) == frame

\* DataFrame.dropna(): the rows with no NaN in any column.
dropna(frame) == SelectSeq(frame, LAMBDA r : ~IsNaN(r.asset) /\ ~IsNaN(r.market))

\* aligned_data once its rows with a missing value are dropped: the rows
\* calculate_capm regresses on.
aligned_data_of(asset_returns, market_returns) ==
    dropna(concat_inner(asset_returns, market_returns))

\* sm.add_constant(x) with has_constant='skip' adds no 'const' column when x
\* is already a constant column other than zero.
IsConstantColumn(col) ==
    /\ \A i \in DOMAIN col : IsFinite(col[i])
    /\ \A i \in DOMAIN col : col[i] = col[1]
    /\ col[1] # Zero

\* sm.OLS(...) raises MissingDataError when a regressor is not finite; the
\* read of model.params['const'] raises KeyError when no constant was added.
ols_raises(excess_market) ==
    \/ \E i \in DOMAIN excess_market : ~IsFinite(excess_market[i])
    \/ IsConstantColumn(excess_market)

\* A quantity of the fitted model whose numeric value is not modelled.
Fitted(name) == <<"fitted", name>>

LCM(a, b) == (a \div GCD(a, b)) * b

\* The least common denominator of col[lo..hi], the greatest common divisor
\* and the sum of the whole numbers ints[lo..hi], by halving the range.
RECURSIVE CommonDenominator(_, _, _)
CommonDenominator(col, lo, hi) ==
    IF lo > hi THEN 1
    ELSE IF lo = hi THEN col[lo][3]
    ELSE LCM(CommonDenominator(col, lo, (lo + hi) \div 2),
             CommonDenominator(col, ((lo + hi) \div 2) + 1, hi))

RECURSIVE CommonDivisor(_, _, _)
CommonDivisor(ints, lo, hi) ==
    IF lo > hi THEN 0
    ELSE IF lo = hi THEN Abs(ints[lo])
    ELSE GCD(CommonDivisor(ints, lo, (lo + hi) \div 2),
             CommonDivisor(ints, ((lo + hi) \div 2) + 1, hi))

RECURSIVE Total(_, _, _)
Total(ints, lo, hi) ==
    IF lo > hi THEN 0
    ELSE IF lo = hi THEN ints[lo]
    ELSE Total(ints, lo, (lo + hi) \div 2) + Total(ints, ((lo + hi) \div 2) + 1, hi)

\* A column of finite floats as whole numbers times one unit:
\* col[i] = unit * ints[i].
Scaled(col) ==
    With(CommonDenominator(col, 1, Len(col)), LAMBDA den :
    With([i \in DOMAIN col |-> col[i][2] * (den \div col[i][3])], LAMBDA whole :
    With(CommonDivisor(whole, 1, Len(whole)), LAMBDA div :
         IF div = 0 THEN [unit |-> One, ints |-> whole]
         ELSE [unit |-> Fin(div, den),
               ints |-> [i \in DOMAIN whole |-> whole[i] \div div]])))

\* sm.OLS(endog, add_constant(exog)).fit() for a finite exog: the least
\* squares line, its params and rsquared (1 - ssr / centered_tss).  A
\* regressor that is zero throughout gets the coefficient 0 (the minimum
\* norm solution of pinv); an endog that is not finite leaves nothing finite.
ols_fit(endog, exog) ==
    IF \E i \in DOMAIN endog : ~IsFinite(endog[i])
    THEN [market |-> NaN, const |-> NaN, rsquared |-> NaN]
    ELSE
    With(Scaled(exog), LAMBDA sx :
    With(Scaled(endog), LAMBDA sy :
    With([n   |-> Len(exog),
          x   |-> Total(sx.ints, 1, Len(exog)),
          y   |-> Total(sy.ints, 1, Len(exog)),
          xy  |-> Total([i \in DOMAIN exog |-> sx.ints[i] * sy.ints[i]], 1, Len(exog)),
          xx  |-> Total([i \in DOMAIN exog |-> sx.ints[i] * sx.ints[i]], 1, Len(exog)),
          yy  |-> Total([i \in DOMAIN exog |-> sy.ints[i] * sy.ints[i]], 1, Len(exog))],
         LAMBDA sums :
    With([xy |-> sums.n * sums.xy - sums.x * sums.y,
          xx |-> sums.n * sums.xx - sums.x * sums.x,
          yy |-> sums.n * sums.yy - sums.y * sums.y], LAMBDA centred :
    With(IF centred.xx = 0 THEN Zero
         ELSE FMul(FDiv(sy.unit, sx.unit), Fin(centred.xy, centred.xx)), LAMBDA slope :
         [market |-> slope,
          \* mean(endog) - slope * mean(exog), over one denominator
          const |-> IF centred.xx = 0 THEN FMul(sy.unit, Fin(sums.y, sums.n))
                    ELSE With(Fin(centred.xy, centred.xx), LAMBDA ratio :
                         FMul(sy.unit, Fin(sums.y * ratio[3] - ratio[2] * sums.x,
                                           sums.n * ratio[3]))),
          rsquared |-> IF centred.yy = 0 THEN NaN
                       ELSE IF centred.xx = 0 THEN Zero
                       ELSE FMul(Fin(centred.xy, centred.xx),
                                 Fin(centred.xy, centred.yy))])))))

\* excess_market.mean()
mean(col) ==
    With(Scaled(col), LAMBDA sc : FMul(sc.unit, Fin(Total(sc.ints, 1, Len(col)), Len(col))))

\* The asset column as it is, the risk-free rate not taken off.
asset_returns_not_in_excess(aligned_data, risk_free_rate) ==
    [i \in DOMAIN aligned_data |-> aligned_data[i].asset]

\* excess_asset = aligned_data['asset'] - risk_free_rate / 252
excess_asset_of(aligned_data, risk_free_rate) ==
    [i \in DOMAIN aligned_data |->
        FSub(aligned_data[i].asset, FDiv(risk_free_rate, Fin(TradingDays, 1)))]

\* excess_market = aligned_data['market'] - risk_free_rate / 252
excess_market_of(aligned_data, risk_free_rate) ==
    [i \in DOMAIN aligned_data |->
        FSub(aligned_data[i].market, FDiv(risk_free_rate, Fin(TradingDays, 1)))]

calculate_capm(asset_returns, market_returns, risk_free_rate) ==
    With(concat_inner(asset_returns, market_returns), LAMBDA joined :
    With(aligned_data_of(asset_returns, market_returns), LAMBDA aligned_data :
    With(excess_market_of(aligned_data, risk_free_rate), LAMBDA excess_market :
    With(excess_asset_of(aligned_data, risk_free_rate),
         LAMBDA excess_asset :
        IF Len(joined) = 0                           \* aligned_data.empty
        THEN HTTPException(500, "CAPM calculation failed: No overlapping data")
        ELSE IF Len(aligned_data) < MinCapmRows
        THEN HTTPException(500, "CAPM calculation failed: Insufficient data points")
        ELSE IF ols_raises(excess_market)
        THEN HTTPException(500, "CAPM calculation failed: regression error")
        ELSE With(ols_fit(excess_asset, excess_market), LAMBDA model :
             With(FMul(mean(excess_market), Fin(TradingDays, 1)), LAMBDA market_premium :
             Return([beta |-> model.market,
                     alpha |-> FMul(model.const, Fin(TradingDays, 1)),
                     r_squared |-> model.rsquared,
                     expected_return |-> FAdd(risk_free_rate,
                                              FMul(model.market, market_premium)),
                     actual_return |-> Fitted("actual_return"),
                     treasury_yield |-> risk_free_rate,
                     market_premium |-> market_premium,
                     p_value |-> Fitted("p_value"),
                     std_error |-> Fitted("std_error"),
                     confidence_interval |-> Fitted("confidence_interval"),
                     n_observations |-> Len(aligned_data)])))))))

-----------------------------------------------------------------------------
(* Strings are sequences of one-character strings.                         *)

LowerCase == <<"a", "b", "c", "d", "e", "f", "g", "h", "i", "j", "k", "l", "m",
               "n", "o", "p", "q", "r", "s", "t", "u", "v", "w", "x", "y", "z">>

UpperCase == <<"A", "B", "C", "D", "E", "F", "G", "H", "I", "J", "K", "L", "M",
               "N", "O", "P", "Q", "R", "S", "T", "U", "V", "W", "X", "Y", "Z">>

Letter(alphabet, c) == CHOOSE i \in DOMAIN alphabet : alphabet[i] = c

IsIn(alphabet, c) == \E i \in DOMAIN alphabet : alphabet[i] = c

\* str.lower() and str.upper()
lower(str) ==
    [i \in DOMAIN str |->
        IF IsIn(UpperCase, str[i]) THEN LowerCase[Letter(UpperCase, str[i])] ELSE str[i]]

upper(str) ==
    [i \in DOMAIN str |->
        IF IsIn(LowerCase, str[i]) THEN UpperCase[Letter(LowerCase, str[i])] ELSE str[i]]

\* `sub in str`
Contains(str, sub) ==
    \E i \in 1..(Len(str) - Len(sub) + 1) : SubSeq(str, i, i + Len(sub) - 1) = sub

\* str.strip(): without the blanks at either end.
RECURSIVE lstrip(_)
lstrip(str) == IF Len(str) > 0 /\ Head(str) = " " THEN lstrip(Tail(str)) ELSE str

RECURSIVE rstrip(_)
rstrip(str) ==
    IF Len(str) > 0 /\ str[Len(str)] = " " THEN rstrip(SubSeq(str, 1, Len(str) - 1)) ELSE str

strip(str) == rstrip(lstrip(str))

\* str.split(','): the pieces between the commas, empty pieces included.
RECURSIVE split_from(_, _, _)
split_from(pieces, piece, rest) ==
    IF Len(rest) = 0 THEN Append(pieces, piece)
    ELSE IF Head(rest) = "," THEN split_from(Append(pieces, piece), <<>>, Tail(rest))
    ELSE split_from(pieces, Append(piece, Head(rest)), Tail(rest))

split(str) == split_from(<<>>, <<>>, str)

Digits == <<"0", "1", "2", "3", "4", "5", "6", "7", "8", "9">>

IsDigits(str) == Len(str) > 0 /\ \A i \in DOMAIN str : IsIn(Digits, str[i])

RECURSIVE digits_value(_, _)
digits_value(acc, str) ==
    IF Len(str) = 0 THEN acc
    ELSE digits_value(acc * 10 + Letter(Digits, Head(str)) - 1, Tail(str))

RECURSIVE Pow10(_)
Pow10(k) == IF k = 0 THEN 1 ELSE 10 * Pow10(k - 1)

\* float(str) for the literals the model feeds it: an optional sign, then
\* "nan", "inf" or a decimal number with an optional fraction.  `ok` is
\* false where float() raises ValueError.
parse_float(str) ==
    LET negative == Len(str) > 0 /\ Head(str) = "-"
        signed == Len(str) > 0 /\ Head(str) \in {"-", "+"}
        body == lower(IF signed THEN Tail(str) ELSE str)
        dot == {i \in DOMAIN body : body[i] = "."}
        point == CHOOSE i \in dot : TRUE
        whole == SubSeq(body, 1, point - 1)
        frac == SubSeq(body, point + 1, Len(body))
        magnitude ==
            IF body = <<"n", "a", "n">> THEN [ok |-> TRUE, value |-> NaN]
            ELSE IF body = <<"i", "n", "f">> THEN [ok |-> TRUE, value |-> Inf(1)]
            ELSE IF IsDigits(body) THEN [ok |-> TRUE, value |-> Fin(digits_value(0, body), 1)]
            ELSE IF Cardinality(dot) = 1 /\ IsDigits(whole \o frac)
                     /\ (Len(whole) = 0 \/ IsDigits(whole)) /\ (Len(frac) = 0 \/ IsDigits(frac))
            THEN [ok |-> TRUE,
                  value |-> Fin(digits_value(0, whole \o frac), Pow10(Len(frac)))]
            ELSE [ok |-> FALSE, value |-> NaN]
    IN  IF negative THEN [magnitude EXCEPT !.value = FNeg(@)] ELSE magnitude

\* hash(str): Python salts string hashes per process; within a process the
\* hash is a fixed function of the characters.
CharCode(c) ==
    IF IsIn(UpperCase, c) THEN Letter(UpperCase, c)
    ELSE IF IsIn(LowerCase, c) THEN 26 + Letter(LowerCase, c)
    ELSE 53

HashMod == 100003

RECURSIVE HashFrom(_, _)
HashFrom(h, str) ==
    IF Len(str) = 0 THEN h
    ELSE HashFrom((h * 31 + CharCode(Head(str))) % HashMod, Tail(str))

hash(str, salt) == HashFrom((salt * 7919 + 17) % HashMod, str)

-----------------------------------------------------------------------------
(* numpy's global generator.  Its state is one number; seeding fixes the   *)
(* state, every draw advances it and reads the value drawn off the new     *)
(* state.  A normal draw is a whole number of standard deviations in       *)
(* -2..2, a uniform draw a multiple of 1/4 in [0, 1).                      *)

RngMod == 32749

RngMul == 75

RngInc == 74

rng_step(s) == (s * RngMul + RngInc) % RngMod

\* np.random.seed(k)
rng_seed(k) == k % RngMod

\* n steps as one: the state s becomes (mul * s + inc) % RngMod.
RECURSIVE rng_jump(_)
rng_jump(n) ==
    IF n = 0 THEN [mul |-> 1, inc |-> 0]
    ELSE LET half == rng_jump(n \div 2)
             twice == [mul |-> (half.mul * half.mul) % RngMod,
                       inc |-> (half.mul * half.inc + half.inc) % RngMod]
         IN  IF n % 2 = 0 THEN twice
             ELSE [mul |-> (twice.mul * RngMul) % RngMod,
                   inc |-> (twice.inc * RngMul + RngInc) % RngMod]

rng_after(s, n) == (rng_jump(n).mul * s + rng_jump(n).inc) % RngMod

\* The states the next n draws read, in order.
rng_states(s, n) == [i \in 1..n |-> rng_after(s, i)]

\* np.random.normal(mu, sigma) and np.random.random(), read off state s.
normal(s, mu, sigma) == FAdd(mu, FMul(sigma, Fin((s % 5) - 2, 1)))

random(s) == Fin(s % 4, 4)

-----------------------------------------------------------------------------
(* FactorAnalyzer.get_fama_french_factors                                  *)

LookbackDays == 44  \* the window of the synthetic factors (365 * 2 days in the source)

TechTickers == {<<"a", "a", "p", "l">>, <<"g", "o", "o", "g", "l">>,
                <<"m", "s", "f", "t">>, <<"t", "s", "l", "a">>,
                <<"n", "v", "d", "a">>, <<"a", "m", "z", "n">>}

ValueTickers == {<<"x", "o", "m">>, <<"c", "v", "x">>, <<"j", "p", "m">>,
                 <<"w", "m", "t">>, <<"k", "o">>, <<"p", "g">>}

\* The (mean, standard deviation) pairs of the ticker's profile.
Profile(ticker) ==
    LET ticker_lower == lower(ticker)
    IN  IF \E tech \in TechTickers : Contains(ticker_lower, tech)
        THEN [base_mkt |-> Fin(4, 10000), market_vol |-> Fin(18, 1000),
              hml_trend |-> Fin(-3, 10000), smb_trend |-> Fin(-1, 10000)]
        ELSE IF \E value \in ValueTickers : Contains(ticker_lower, value)
        THEN [base_mkt |-> Fin(2, 10000), market_vol |-> Fin(12, 1000),
              hml_trend |-> Fin(2, 10000), smb_trend |-> Fin(-1, 10000)]
        ELSE [base_mkt |-> Fin(3, 10000), market_vol |-> Fin(15, 1000),
              hml_trend |-> Zero, smb_trend |-> Fin(-1, 10000)]

\* np.cumsum: `done` holds the running totals of the first Len(done) entries.
RECURSIVE cumsum_from(_, _)
cumsum_from(done, xs) ==
    IF Len(done) = Len(xs) THEN done
    ELSE LET x == xs[Len(done) + 1]
             total == IF Len(done) = 0 THEN x ELSE FAdd(done[Len(done)], x)
         IN  CHOOSE all \in {cumsum_from(next, xs) : next \in {Append(done, total)}} : TRUE

cumsum(xs) == CHOOSE all \in {cumsum_from(<<>>, values) : values \in {xs}} : TRUE

\* What the call returns and the state it leaves numpy's generator in, when
\* the clock reads `clock`, the generator is in any state and the process's
\* hash salt is `salt`.
get_fama_french_factors(ticker, clock, salt) ==
    LET start_date == clock - LookbackDays
        n_points == clock - start_date + 1           \* len(date_range(start, end, 'D'))
        seeded == rng_seed(hash(ticker, salt) % 10000)
        prof == Profile(ticker)
    IN  With(rng_states(seeded, 4 * n_points), LAMBDA draws :
        With([mkt_factor |-> cumsum([i \in 1..n_points |->
                                normal(draws[i], prof.base_mkt, prof.market_vol)]),
              smb_factor |-> cumsum([i \in 1..n_points |->
                                normal(draws[n_points + i], prof.smb_trend, Fin(8, 1000))]),
              hml_factor |-> cumsum([i \in 1..n_points |->
                                normal(draws[2 * n_points + i], prof.hml_trend, Fin(7, 1000))]),
              rf_factor |-> cumsum([i \in 1..n_points |->
                                normal(draws[3 * n_points + i], Fin(1, 10000), Fin(3, 10000))])],
             LAMBDA made :
        [outcome |-> Return([i \in 1..n_points |->
                        [d |-> start_date + i - 1, MKT_RF |-> made.mkt_factor[i],
                         SMB |-> made.smb_factor[i], HML |-> made.hml_factor[i],
                         RF |-> made.rf_factor[i]]]),
         rng |-> draws[4 * n_points]]))

-----------------------------------------------------------------------------
(* FactorAnalyzer.calculate_factor_exposure                                *)

MinFactorRows == 30

FallbackObservations == 100

IsBusinessDay(d) == d % 7 < 5

\* frame.asfreq('B', method='pad') on an increasing index: one row per
\* business day from the first date to the last, each carrying the values of
\* the last row dated on or before it.
asfreq(frame) ==
    IF Len(frame) = 0 THEN frame
    ELSE LET first == frame[1].d
             last == frame[Len(frame)].d
             days == SelectSeq([i \in 1..(last - first + 1) |-> first + i - 1],
                               IsBusinessDay)
             Padded(b) == frame[Cardinality({j \in DOMAIN frame : frame[j].d <= b})]
         IN  [k \in DOMAIN days |-> [Padded(days[k]) EXCEPT !.d = days[k]]]

\* The count of common dates reported as it is, zero included.
fallback_observations_as_counted(n_common) == n_common

\* len(common_dates) if len(common_dates) > 0 else 100
fallback_observations(n_common) ==
    IF n_common > 0 THEN n_common ELSE FallbackObservations

\* The record returned when the overlap is below the minimum (fallback =
\* "overlap", nine draws) and the one returned by the except branch
\* (fallback = "except", eight draws), with the generator state left behind.
placeholder(s, fallback, n_observations) ==
    LET draws == rng_states(s, 9)
    IN  [outcome |-> Return(
            [market_beta |-> FAdd(One, normal(draws[1], Zero, Fin(2, 10))),
             smb_beta |-> normal(draws[2], Zero, Fin(3, 10)),
             hml_beta |-> normal(draws[3], Zero, Fin(2, 10)),
             alpha |-> normal(draws[4], Zero, Fin(2, 100)),
             r_squared |-> FAdd(Fin(4, 10), FMul(random(draws[5]), Fin(4, 10))),
             factor_pvalues |->
                [MKT |-> FAdd(Fin(1, 1000), FMul(random(draws[6]), Fin(1, 100))),
                 SMB |-> FAdd(Fin(5, 100), FMul(random(draws[7]), Fin(3, 10))),
                 HML |-> FAdd(Fin(5, 100), FMul(random(draws[8]), Fin(3, 10)))],
             n_observations |-> n_observations,
             regression_summary |->
                [f_statistic |->
                    IF fallback = "overlap"
                    THEN FAdd(Fin(25, 1), FMul(random(draws[9]), Fin(10, 1)))
                    ELSE Fin(25, 1),
                 f_pvalue |-> Fin(1, 10000),
                 aic |-> Fin(-800, 1),
                 bic |-> Fin(-780, 1)]]),
         rng |-> IF fallback = "overlap" THEN draws[9] ELSE draws[8],
         path |-> fallback]

\* sm.add_constant(X) adds 'const' unless a column of X is constant and not
\* zero; sm.OLS raises on a regressor that is not finite; the read of
\* model.params['const'] raises when no constant was added.
factor_fit_raises(X, X_clean) ==
    \/ \E i \in DOMAIN X_clean :
          ~IsFinite(X_clean[i].MKT_RF) \/ ~IsFinite(X_clean[i].SMB)
              \/ ~IsFinite(X_clean[i].HML)
    \/ IsConstantColumn([i \in DOMAIN X |-> X[i].MKT_RF])
    \/ IsConstantColumn([i \in DOMAIN X |-> X[i].SMB])
    \/ IsConstantColumn([i \in DOMAIN X |-> X[i].HML])

\* An except block that re-raises instead of building a record.
factor_except_reraises(s) ==
    [outcome |-> HTTPException(500, "Factor analysis failed"), rng |-> s, path |-> "except"]

\* The handler for everything the try block raises.
factor_except(s) == placeholder(s, "except", FallbackObservations)

calculate_factor_exposure(asset_returns, factors, s) ==
    LET asset_returns_business == asfreq(asset_returns)
        factors_business == asfreq(factors)
        common_dates == Index(asset_returns_business) \cap Index(factors_business)
        aligned_asset == SelectSeq(asset_returns_business, LAMBDA r : r.d \in common_dates)
        aligned_factors == SelectSeq(factors_business, LAMBDA r : r.d \in common_dates)
        aligned == [i \in DOMAIN aligned_factors |->
                      LET f == aligned_factors[i]
                      IN  [d |-> f.d, MKT_RF |-> f.MKT_RF, SMB |-> f.SMB, HML |-> f.HML,
                           excess_returns |-> FSub(aligned_asset[i].v, f.RF)]]
        valid == SelectSeq(aligned, LAMBDA r :
                      ~(IsNaN(r.excess_returns) \/ IsNaN(r.MKT_RF) \/ IsNaN(r.SMB)
                          \/ IsNaN(r.HML)))
    IN  IF Cardinality(common_dates) < MinFactorRows
        THEN placeholder(s, "overlap", fallback_observations(Cardinality(common_dates)))
        ELSE IF Len(valid) < MinFactorRows
        THEN factor_except(s)                        \* ValueError("Not enough valid data points")
        ELSE IF factor_fit_raises(aligned, valid)
        THEN factor_except(s)
        ELSE [outcome |-> Return(
                [market_beta |-> Fitted("MKT_RF"),
                 smb_beta |-> Fitted("SMB"),
                 hml_beta |-> Fitted("HML"),
                 alpha |-> Fitted("const"),
                 r_squared |-> Fitted("rsquared"),
                 factor_pvalues |-> [MKT |-> Fitted("p_MKT_RF"), SMB |-> Fitted("p_SMB"),
                                     HML |-> Fitted("p_HML")],
                 n_observations |-> Len(valid),
                 regression_summary |->
                    [f_statistic |-> Fitted("fvalue"), f_pvalue |-> Fitted("f_pvalue"),
                     aic |-> Fitted("aic"), bic |-> Fitted("bic")]]),
              rng |-> s,
              path |-> "regression"]

-----------------------------------------------------------------------------
(* portfolio_capm                                                          *)

MinPortfolioRows == 30

GSPC == <<"^", "G", "S", "P", "C">>

TNX == <<"^", "T", "N", "X">>

\* What the provider answers for a ticker; an unknown ticker has no data.
Answer(provider, ticker) ==
    IF ticker \in DOMAIN provider THEN provider[ticker] ELSE Provided(<<>>)

\* DataFetcher.get_risk_free_rate: the last close of ^TNX over 100, or 0.04
\* when anything fails.
get_risk_free_rate(answer) ==
    IF answer.raises \/ Len(answer.rows) = 0 THEN Fin(4, 100)
    ELSE FDiv(answer.rows[Len(answer.rows)].close, Fin(100, 1))

\* sum(weight_list)
RECURSIVE sum(_)
sum(xs) == IF Len(xs) = 0 THEN Zero ELSE FAdd(sum(SubSeq(xs, 1, Len(xs) - 1)), xs[Len(xs)])

\* abs(total_weight - 100.0) > 0.01
weights_rejected(total_weight) ==
    FGt(FAbs(FSub(total_weight, Fin(100, 1))), Fin(1, 100))

\* The returns as they are, the weight left out.
unweighted(returns, weight) == returns

\* returns * (weight / 100.0)
weighted(returns, weight) ==
    MapSeries(returns, LAMBDA v : FMul(v, FDiv(weight, Fin(100, 1))))

\* a, b = a.align(b, join='inner'): both cut down to their common dates.
align(a, b) ==
    LET dates == Index(b)
    IN  SelectSeq(a, LAMBDA r : r.d \in dates)

\* a + b for two series on the same dates.
add_series(a, b) == [i \in DOMAIN a |-> [d |-> a[i].d, v |-> FAdd(a[i].v, b[i].v)]]

\* The loop that builds portfolio_returns: `acc` after the first i - 1
\* listings (<<"none">> before the first).
RECURSIVE build_portfolio(_, _, _, _)
build_portfolio(acc, i, all_returns, weight_list) ==
    IF i > Len(weight_list) THEN acc
    ELSE LET weighted_returns == weighted(all_returns[i], weight_list[i])
         IN  build_portfolio(
                IF acc = <<"none">> THEN <<"some", weighted_returns>>
                ELSE <<"some", add_series(align(acc[2], weighted_returns),
                                          align(weighted_returns, acc[2]))>>,
                i + 1, all_returns, weight_list)

\* portfolio_returns after the loop over zip(ticker_list, weight_list), each
\* listing reading all_returns[ticker]: <<"none">> for an empty list.
portfolio_returns_of(ticker_list, weight_list, provider) ==
    build_portfolio(<<"none">>, 1,
                    [i \in DOMAIN ticker_list |->
                        get_returns(Answer(provider, ticker_list[i])).value],
                    weight_list)

\* The loop over ticker_list with the market series fetched at its end,
\* ahead of the check of the composite's length.
fetch_all_then_market(ticker_list) ==
    [i \in 1..(Len(ticker_list) + 1) |->
        IF i <= Len(ticker_list) THEN <<"get_returns", ticker_list[i]>>
        ELSE <<"get_returns", GSPC>>]

\* The calls the loop `for ticker in ticker_list` makes when no fetch fails:
\* data_fetcher.get_returns(ticker), listing by listing.
fetch_all(ticker_list) ==
    [i \in DOMAIN ticker_list |-> <<"get_returns", ticker_list[i]>>]

\* A handler that turns every exception into the status-500 failure, as the
\* `except Exception` branch does.
portfolio_reraise_wrapped(exc) == HTTPException(500, "Portfolio analysis failed")

\* The handlers around the body: an HTTPException goes through unchanged.
portfolio_reraise(exc) == exc

portfolio_capm(tickers, weights, provider) ==
    LET ticker_pieces == SelectSeq(split(tickers), LAMBDA t : Len(strip(t)) > 0)
        ticker_list == [i \in DOMAIN ticker_pieces |-> upper(strip(ticker_pieces[i]))]
        weight_pieces == SelectSeq(split(weights), LAMBDA w : Len(strip(w)) > 0)
        parsed == [i \in DOMAIN weight_pieces |-> parse_float(strip(weight_pieces[i]))]
        weight_list == [i \in DOMAIN parsed |-> parsed[i].value]
        total_weight == sum(weight_list)
        fetched == [i \in DOMAIN ticker_list |-> get_returns(Answer(provider, ticker_list[i]))]
        failed == {i \in DOMAIN fetched : fetched[i].kind = "raise"}
        first_failed == CHOOSE i \in failed : \A j \in failed : i <= j
        fetches(n) == [i \in 1..n |-> <<"get_returns", ticker_list[i]>>]
        portfolio_returns == portfolio_returns_of(ticker_list, weight_list, provider)
        market == get_returns(Answer(provider, GSPC))
        risk_free_rate == get_risk_free_rate(Answer(provider, TNX))
        portfolio_aligned == align(portfolio_returns[2], market.value)
        market_returns_aligned == align(market.value, portfolio_returns[2])
        capm_result == calculate_capm(portfolio_aligned, market_returns_aligned,
                                      risk_free_rate)
        own == [portfolio |-> ticker_list, weights |-> weight_list,
                total_weight |-> total_weight,
                n_observations |-> Len(portfolio_aligned)]
        all_fetches == fetch_all(ticker_list)
        market_fetches == all_fetches \o <<<<"get_returns", GSPC>>>>
        rate_fetches == market_fetches \o <<<<"get_risk_free_rate">>>>
    IN  IF \E i \in DOMAIN parsed : ~parsed[i].ok     \* float() raises ValueError
        THEN [outcome |-> HTTPException(500, "Portfolio analysis failed"), steps |-> <<>>]
        ELSE IF Len(ticker_list) # Len(weight_list)
        THEN [outcome |-> portfolio_reraise(HTTPException(400,
                            "Tickers and weights must have same length")),
              steps |-> <<>>]
        ELSE IF Len(ticker_list) = 0
        THEN [outcome |-> portfolio_reraise(HTTPException(400, "No valid tickers provided")),
              steps |-> <<>>]
        ELSE IF weights_rejected(total_weight)
        THEN [outcome |-> portfolio_reraise(HTTPException(400, "Weights must sum to 100")),
              steps |-> <<>>]
        ELSE IF failed # {}
        THEN [outcome |-> portfolio_reraise(HTTPException(400, "Error fetching data")),
              steps |-> fetches(first_failed)]
        ELSE IF Len(portfolio_returns[2]) < MinPortfolioRows
        THEN [outcome |-> portfolio_reraise(HTTPException(400,
                            "Insufficient data for portfolio analysis")),
              steps |-> all_fetches]
        ELSE IF market.kind = "raise"
        THEN [outcome |-> portfolio_reraise(market), steps |-> market_fetches]
        ELSE IF Len(portfolio_aligned) < MinPortfolioRows
        THEN [outcome |-> portfolio_reraise(HTTPException(400,
                            "Not enough overlapping data with market")),
              steps |-> rate_fetches]
        ELSE IF capm_result.kind = "raise"
        THEN [outcome |-> portfolio_reraise(capm_result),
              steps |-> rate_fetches \o <<<<"calculate_capm">>>>]
        ELSE [outcome |-> Return(
                [f \in DOMAIN own \cup DOMAIN capm_result.value |->
                    IF f \in DOMAIN capm_result.value THEN capm_result.value[f]
                    ELSE own[f]]),
              steps |-> rate_fetches \o <<<<"calculate_capm">>>>]

-----------------------------------------------------------------------------
(* The cached endpoints.  Each takes the cache as it finds it and gives    *)
(* the response with the cache, and the generator state, it leaves.        *)

\* f"{prefix}_{ticker}_{period}"
cache_key(prefix, ticker, period) == prefix \o <<"_">> \o ticker \o <<"_">> \o period

\* cache[key] = value
cache_put(kv, key, value) ==
    [k \in DOMAIN kv \cup {key} |-> IF k = key THEN value ELSE kv[k]]

\* {**a, **b}: the fields of both, b's value where both have the field.
dict_merge(a, b) ==
    [f \in DOMAIN a \cup DOMAIN b |-> IF f \in DOMAIN b THEN b[f] ELSE a[f]]

\* str(e) for the HTTPException e
str(exc) == <<exc.status_code, ":", exc.detail>>

api_capm(ticker, period, kv, provider) ==
    LET key == cache_key(<<"c", "a", "p", "m">>, ticker, period)
        asset_returns == get_returns(Answer(provider, ticker))
        market_returns == get_returns(Answer(provider, GSPC))
        risk_free_rate == get_risk_free_rate(Answer(provider, TNX))
        capm_result == calculate_capm(asset_returns.value, market_returns.value,
                                      risk_free_rate)
        result == dict_merge(dict_merge([ticker |-> ticker, period |-> period],
                                        capm_result.value),
                             [interpretation |-> "meanings"])
    IN  IF key \in DOMAIN kv
        THEN [outcome |-> Return(kv[key]), cache |-> kv]
        ELSE IF asset_returns.kind = "raise"
        THEN [outcome |-> HTTPException(400, str(asset_returns)), cache |-> kv]
        ELSE IF market_returns.kind = "raise"
        THEN [outcome |-> HTTPException(400, str(market_returns)), cache |-> kv]
        ELSE IF capm_result.kind = "raise"
        THEN [outcome |-> HTTPException(400, str(capm_result)), cache |-> kv]
        ELSE [outcome |-> Return(result), cache |-> cache_put(kv, key, result)]

SPY == <<"S", "P", "Y">>

Period == <<"2", "y">>

factor_data == <<"f", "a", "c", "t", "o", "r", "_", "d", "a", "t", "a">>

\* date.strftime: the day number in decimal digits.
RECURSIVE strftime(_)
strftime(d) ==
    IF d < 10 THEN <<Digits[d + 1]>> ELSE Append(strftime(d \div 10), Digits[(d % 10) + 1])

\* `synth` holds the frame get_fama_french_factors returned, if it was called.
api_factors(kv, clock, salt, s) ==
    LET key == factor_data
        response(factors) ==
            [factors |-> [MKT_RF |-> [i \in DOMAIN factors |-> factors[i].MKT_RF],
                          SMB |-> [i \in DOMAIN factors |-> factors[i].SMB],
                          HML |-> [i \in DOMAIN factors |-> factors[i].HML],
                          RF |-> [i \in DOMAIN factors |-> factors[i].RF]],
             dates |-> [i \in DOMAIN factors |-> strftime(factors[i].d)]]
    IN  IF key \in DOMAIN kv
        THEN [outcome |-> Return(kv[key]), cache |-> kv, rng |-> s, synth |-> <<>>]
        ELSE With(get_fama_french_factors(SPY, clock, salt), LAMBDA made :
             With(response(made.outcome.value), LAMBDA result :
             [outcome |-> Return(result), cache |-> cache_put(kv, key, result),
              rng |-> made.rng, synth |-> <<made.outcome.value>>]))

\* `path` tells which branch of calculate_factor_exposure built the record:
\* "hit" when the response came from the cache, "none" when there is none.
api_multifactor(ticker, period, kv, provider, clock, salt, s) ==
    LET key == cache_key(<<"m", "u", "l", "t", "i", "f", "a", "c", "t", "o", "r">>,
                         ticker, period)
        response(factor_result) ==
            dict_merge(dict_merge([ticker |-> ticker, period |-> period], factor_result),
                       [factor_explanations |-> "explanations"])
    IN  IF key \in DOMAIN kv
        THEN [outcome |-> Return(kv[key]), cache |-> kv, rng |-> s, synth |-> <<>>,
              path |-> "hit"]
        ELSE With(get_returns(Answer(provider, ticker)), LAMBDA asset_returns :
             IF asset_returns.kind = "raise"
             THEN [outcome |-> HTTPException(400, str(asset_returns)), cache |-> kv,
                   rng |-> s, synth |-> <<>>, path |-> "none"]
             ELSE With(get_fama_french_factors(ticker, clock, salt), LAMBDA made :
                  With(calculate_factor_exposure(asset_returns.value, made.outcome.value,
                                                 made.rng), LAMBDA fit :
                  With(response(fit.outcome.value), LAMBDA result :
                  [outcome |-> Return(result), cache |-> cache_put(kv, key, result),
                   rng |-> fit.rng, synth |-> <<made.outcome.value>>, path |-> fit.path]))))

-----------------------------------------------------------------------------
(* Inputs.  Series are generated from a first date, a length, a spacing of *)
(* the dates and a shape of the values.                                    *)

MaxLen == 14        \* longest series handed to calculate_capm

MaxPrices == 4      \* longest price history handed to get_returns alone

MaxFactorLen == 45  \* longest series or frame handed to calculate_factor_exposure

MaxListing == 2     \* most comma-separated pieces in a tickers or weights string

MaxCycles == 11     \* whole turns of CloseCycle in a ticker's returns

\* The longest price history the provider holds for a ticker: one close more
\* than its returns.
MaxHistory == (3 * MaxCycles) + 1

Wave(d) == Fin((d % 3) - 1, 100)

Shape(pat, d) ==
    CASE pat = "wave"  -> Wave(d)
      [] pat = "flat"  -> Fin(1, 100)
      [] pat = "gappy" -> IF d % 2 = 0 THEN NaN ELSE Wave(d)
      [] pat = "dent"  -> IF d % 7 = 0 THEN NaN ELSE Wave(d)
      [] pat = "spike" -> IF d % 5 = 0 THEN Inf(1) ELSE Wave(d)

SeriesOf(start, len, step, pat) ==
    [i \in 1..len |-> [d |-> start + (i - 1) * step,
                       v |-> Shape(pat, start + (i - 1) * step)]]

Closes == {Fin(100, 1), Fin(110, 1), Fin(99, 1)}

RECURSIVE SeqsUpTo(_, _)
SeqsUpTo(S, n) ==
    IF n = 0 THEN {<<>>}
    ELSE LET shorter == SeqsUpTo(S, n - 1)
         IN  shorter \cup {Append(q, x) : q \in {r \in shorter : Len(r) = n - 1}, x \in S}

\* A factor frame: "noisy" columns vary from day to day; "flat" has a
\* constant SMB column; "holes" has a missing HML value on two days of three;
\* "spike" has an infinite MKT_RF value every eleventh day.
FrameOf(start, len, pat) ==
    [i \in 1..len |->
        LET d == start + i - 1
        IN  [d |-> d,
             MKT_RF |-> IF pat = "spike" /\ d % 11 = 0 THEN Inf(1) ELSE Fin((d % 5) - 2, 100),
             SMB |-> IF pat = "flat" THEN Fin(1, 100) ELSE Fin((d % 4) - 1, 100),
             HML |-> IF pat = "holes" /\ d % 3 # 0 THEN NaN ELSE Fin((d % 3) - 1, 100),
             RF |-> Fin(1, 10000)]]

PriceRows(start, closes) ==
    [i \in DOMAIN closes |-> [d |-> start + i - 1, close |-> closes[i]]]

\* Closes that rise, fall and recover in a cycle of three days.
CloseCycle == <<Fin(100, 1), Fin(125, 1), Fin(150, 1)>>

PriceHistory(start, len, phase) ==
    Provided([i \in 1..len |-> [d |-> start + i - 1,
                                 close |-> CloseCycle[((i + phase) % 3) + 1]]])

AAPL == <<"A", "A", "P", "L">>

MSFT == <<"M", "S", "F", "T">>

\* str.join: the pieces with commas between them.
RECURSIVE Join(_)
Join(pieces) ==
    IF Len(pieces) = 0 THEN <<>>
    ELSE IF Len(pieces) = 1 THEN pieces[1]
    ELSE pieces[1] \o <<",">> \o Join(Tail(pieces))

World(aapl, msft, gspc, tnx) ==
    [t \in {AAPL, MSFT, GSPC, TNX} |->
        IF t = AAPL THEN aapl ELSE IF t = MSFT THEN msft ELSE IF t = GSPC THEN gspc ELSE tnx]

\* A ten-year yield quoted at zero keeps the excess returns the returns.
Treasury == Provided(<<[d |-> MaxHistory, close |-> Zero]>>)

-----------------------------------------------------------------------------
(* What a specification that exercises one function leaves untouched.      *)

NoFunction == [x \in {} |-> x]

ProcessAtRest ==
    /\ hashSeed = 0
    /\ now = 0
    /\ rng = 0
    /\ cache = NoFunction
    /\ factorLog = NoFunction
    /\ prov = [last |-> "none", cached |-> NoFunction]
    /\ steps = <<>>
    /\ served = 0

-----------------------------------------------------------------------------
(* SpecReturns: DataFetcher.get_returns applied to every answer of the     *)
(* provider within the bounds.                                             *)

InitReturns ==
    /\ ProcessAtRest
    /\ hist = NoFunction
    /\ pc = "ready"
    /\ outcome = Idle
    /\ call \in {[op |-> "get_returns", answer |-> a] :
                    a \in {Unavailable} \cup
                          {Provided(PriceRows(1, c)) : c \in SeqsUpTo(Closes, MaxPrices)}}

CallGetReturns ==
    /\ pc = "ready"
    /\ call.op = "get_returns"
    /\ outcome' = get_returns(call.answer)
    /\ pc' = "done"
    /\ UNCHANGED <<hist, hashSeed, now, rng, cache, call, factorLog, prov, steps, served>>

NextReturns == CallGetReturns

SpecReturns == InitReturns /\ [][NextReturns]_vars

-----------------------------------------------------------------------------
(* SpecCapm: CAPMAnalyzer.calculate_capm applied to asset and market       *)
(* series and a risk-free rate.                                            *)

AssetInputs ==
    {SeriesOf(s, l, st, p) :
        s \in {0, 3}, l \in 0..MaxLen, st \in {1, 2}, p \in {"wave", "gappy", "dent"}}

MarketInputs ==
    {SeriesOf(0, l, 1, p) : l \in 0..MaxLen, p \in {"wave", "flat", "gappy", "spike"}}

RateInputs == {Fin(1, 25), Zero, Fin(-1, 100), NaN}

InitCapm ==
    /\ ProcessAtRest
    /\ hist = NoFunction
    /\ pc = "ready"
    /\ outcome = Idle
    /\ call \in {[op |-> "calculate_capm", asset_returns |-> a, market_returns |-> m,
                  risk_free_rate |-> r] :
                    a \in AssetInputs, m \in MarketInputs, r \in RateInputs}

CallCalculateCapm ==
    /\ pc = "ready"
    /\ call.op = "calculate_capm"
    /\ outcome' = calculate_capm(call.asset_returns, call.market_returns,
                                 call.risk_free_rate)
    /\ pc' = "done"
    /\ UNCHANGED <<hist, hashSeed, now, rng, cache, call, factorLog, prov, steps, served>>

NextCapm == CallCalculateCapm

SpecCapm == InitCapm /\ [][NextCapm]_vars

-----------------------------------------------------------------------------
(* SpecFactor: FactorAnalyzer.calculate_factor_exposure applied to asset   *)
(* series and factor frames, from any state of numpy's generator.          *)

FactorLens == {0, 1, 2, 10, MinFactorRows, MaxFactorLen}

FactorAssetInputs ==
    {SeriesOf(s, l, st, p) :
        s \in {0, 5, 30}, l \in FactorLens, st \in {1, 3}, p \in {"wave", "gappy", "spike"}}

FactorFrameInputs ==
    {FrameOf(s, l, p) :
        s \in {0, 12}, l \in FactorLens \cup {MaxFactorLen + 15},
        p \in {"noisy", "flat", "holes", "spike"}}

InitFactor ==
    /\ ProcessAtRest
    /\ hist = NoFunction
    /\ pc = "ready"
    /\ outcome = Idle
    /\ call \in {[op |-> "calculate_factor_exposure", asset_returns |-> a, factors |-> f,
                  rng |-> r] :
                    a \in FactorAssetInputs, f \in FactorFrameInputs, r \in {0, 1}}

CallCalculateFactorExposure ==
    /\ pc = "ready"
    /\ call.op = "calculate_factor_exposure"
    /\ \E r \in {calculate_factor_exposure(call.asset_returns, call.factors, call.rng)} :
           /\ outcome' = r.outcome
           /\ rng' = r.rng
           /\ prov' = [prov EXCEPT !.last = r.path]
    /\ pc' = "done"
    /\ UNCHANGED <<hist, hashSeed, now, cache, call, factorLog, steps, served>>

NextFactor == CallCalculateFactorExposure

SpecFactor == InitFactor /\ [][NextFactor]_vars

-----------------------------------------------------------------------------
(* SpecPortfolio: the /api/portfolio/capm handler applied to tickers and   *)
(* weights strings, against what the provider holds.                       *)

TickerPieces == {<<>>, <<"a", "a", "p", "l">>, <<" ", "M", "S", "F", "T", " ">>}

WeightPieces ==
    {<<>>, <<" ", "5", "0">>, <<"1", "0", "0", ".", "0", "0", "5">>,
     <<"9", "9", ".", "0">>, <<"n", "a", "n">>, <<"i", "n", "f">>,
     <<"-", "i", "n", "f">>, <<"a", "b", "c">>}

\* Three states of the provider.  In the first every history is long and
\* MSFT starts three days late; in the second AAPL is short and the market
\* starts late; in the third MSFT, the market and the treasury yield are
\* unavailable.
PortfolioWorlds ==
    {World(PriceHistory(0, MaxHistory, 0), PriceHistory(3, MaxHistory, 1),
           PriceHistory(0, MaxHistory + 3, 2), Treasury),
     World(PriceHistory(0, MaxHistory - 9, 0), PriceHistory(0, MaxHistory, 1),
           PriceHistory(9, MaxHistory, 2), Treasury),
     World(PriceHistory(0, MaxHistory, 0), Unavailable, Unavailable, Unavailable)}

\* The process has answered /api/capm for AAPL before, so the result cache
\* holds that record wherever the provider could supply it.
InitPortfolio ==
    /\ hashSeed = 0
    /\ now = 0
    /\ rng = 0
    /\ factorLog = NoFunction
    /\ prov = [last |-> "none", cached |-> NoFunction]
    /\ steps = <<>>
    /\ served = 0
    /\ pc = "ready"
    /\ outcome = Idle
    /\ \E w \in PortfolioWorlds :
          /\ hist = w
          /\ cache = api_capm(AAPL, Period, NoFunction, w).cache
          /\ call \in {[op |-> "portfolio_capm", tickers |-> Join(t), weights |-> Join(x)] :
                          t \in SeqsUpTo(TickerPieces, MaxListing),
                          x \in SeqsUpTo(WeightPieces, MaxListing)}

RequestPortfolioCapm ==
    /\ pc = "ready"
    /\ call.op = "portfolio_capm"
    /\ \E r \in {portfolio_capm(call.tickers, call.weights, hist)} :
           /\ outcome' = r.outcome
           /\ steps' = r.steps
    /\ pc' = "done"
    /\ UNCHANGED <<hist, hashSeed, now, rng, cache, call, factorLog, prov, served>>

NextPortfolio == RequestPortfolioCapm

SpecPortfolio == InitPortfolio /\ [][NextPortfolio]_vars

-----------------------------------------------------------------------------
(* SpecServer: one process answering requests on its four analysis         *)
(* endpoints, in any order, while the clock advances.                      *)

MaxRequests == 3    \* most requests one process answers

MaxTicks == 1       \* most days the clock advances

\* The clock when the process starts: late enough for the factor window to
\* begin on a day that is not negative.
StartNow == LookbackDays + 6

\* AAPL and the market have a history as long as the factor window, MSFT one
\* of eleven days.
ServerWorld ==
    World(PriceHistory(StartNow - LookbackDays - 1, LookbackDays + 2, 0),
          PriceHistory(StartNow - 10, 11, 1),
          PriceHistory(StartNow - LookbackDays - 1, LookbackDays + 2, 2),
          Treasury)

InitServer ==
    /\ hist = ServerWorld
    /\ hashSeed \in {0, 1}
    /\ now = StartNow
    /\ rng \in {0, 7}
    /\ cache = NoFunction
    /\ pc = "ready"
    /\ call = [op |-> "none"]
    /\ outcome = Idle
    /\ factorLog = NoFunction
    /\ prov = [last |-> "none", cached |-> NoFunction]
    /\ steps = <<>>
    /\ served = 0

Answered ==
    /\ served < MaxRequests
    /\ served' = served + 1
    /\ pc' = "done"

ReqCapm ==
    /\ Answered
    /\ \E r \in {api_capm(AAPL, Period, cache, hist)} :
           /\ outcome' = r.outcome
           /\ cache' = r.cache
    /\ call' = [op |-> "capm", ticker |-> AAPL, period |-> Period]
    /\ prov' = [prov EXCEPT !.last = "none"]
    /\ steps' = <<>>
    /\ UNCHANGED <<hist, hashSeed, now, rng, factorLog>>

ReqFactors ==
    /\ Answered
    /\ \E r \in {api_factors(cache, now, hashSeed, rng)} :
           /\ outcome' = r.outcome
           /\ cache' = r.cache
           /\ rng' = r.rng
           /\ factorLog' = IF Len(r.synth) = 0 THEN factorLog
                           ELSE cache_put(factorLog, SPY, r.synth[1])
    /\ call' = [op |-> "factors"]
    /\ prov' = [prov EXCEPT !.last = "none"]
    /\ steps' = <<>>
    /\ UNCHANGED <<hist, hashSeed, now>>

ReqMultifactor ==
    /\ Answered
    /\ \E ticker \in {AAPL, MSFT} :
          \E r \in {api_multifactor(ticker, Period, cache, hist, now, hashSeed, rng)},
             key \in {<<ticker, Period>>} :
              /\ outcome' = r.outcome
              /\ cache' = r.cache
              /\ rng' = r.rng
              /\ factorLog' = IF Len(r.synth) = 0 THEN factorLog
                              ELSE cache_put(factorLog, ticker, r.synth[1])
              /\ prov' = IF r.path = "hit" THEN [prov EXCEPT !.last = prov.cached[key]]
                         ELSE IF r.path = "none" THEN [prov EXCEPT !.last = "none"]
                         ELSE [last |-> r.path, cached |-> cache_put(prov.cached, key, r.path)]
              /\ call' = [op |-> "multifactor", ticker |-> ticker, period |-> Period,
                          hit |-> r.path = "hit"]
    /\ steps' = <<>>
    /\ UNCHANGED <<hist, hashSeed, now>>

ReqPortfolio ==
    /\ Answered
    /\ \E r \in {portfolio_capm(AAPL, <<"1", "0", "0">>, hist)} :
           /\ outcome' = r.outcome
           /\ steps' = r.steps
    /\ call' = [op |-> "portfolio_capm", tickers |-> AAPL, weights |-> <<"1", "0", "0">>]
    /\ prov' = [prov EXCEPT !.last = "none"]
    /\ UNCHANGED <<hist, hashSeed, now, rng, cache, factorLog>>

\* A day passes.  Every cache entry is then older than the ttl of 3600
\* seconds, so none is found again.
Tick ==
    /\ now < StartNow + MaxTicks
    /\ now' = now + 1
    /\ cache' = NoFunction
    /\ prov' = [prov EXCEPT !.cached = NoFunction]
    /\ UNCHANGED <<hist, hashSeed, rng, pc, call, outcome, factorLog, steps, served>>

NextServer == ReqCapm \/ ReqFactors \/ ReqMultifactor \/ ReqPortfolio \/ Tick

SpecServer == InitServer /\ [][NextServer]_vars

-----------------------------------------------------------------------------
(* C1.  calculate_capm ends in an error, and returns no result record,     *)
(* whenever fewer than 10 dates are common to the asset and the market     *)
(* series once the dates with a missing value are left out; zero common    *)
(* dates included.                                                         *)

\* The dates on which both series have a value that is not missing.
CommonValidDates(a, m) ==
    {d \in Index(a) \cap Index(m) : ~IsNaN(At(a, d).v) /\ ~IsNaN(At(m, d).v)}

C1_TooFewCommonDatesFail ==
    (pc = "done" /\ call.op = "calculate_capm"
        /\ Cardinality(CommonValidDates(call.asset_returns, call.market_returns)) < 10)
    => outcome.kind = "raise"

\* Ten or more dates are common, fewer than ten of them survive the drop of
\* missing values, and the call has failed.
C1_Witness ==
    /\ pc = "done"
    /\ call.op = "calculate_capm"
    /\ Cardinality(Index(call.asset_returns) \cap Index(call.market_returns)) >= 10
    /\ Cardinality(CommonValidDates(call.asset_returns, call.market_returns)) \in 1..9
    /\ outcome.kind = "raise"

-----------------------------------------------------------------------------
(* C2.  calculate_factor_exposure never ends in an error: whether the      *)
(* overlap is short, too few rows are left once the rows with a missing    *)
(* value are dropped, or the fit raises, it returns a record with the      *)
(* fields of a genuine result.                                             *)

FactorResultFields ==
    {"market_beta", "smb_beta", "hml_beta", "alpha", "r_squared", "factor_pvalues",
     "n_observations", "regression_summary"}

HasFactorResultFields(rec) ==
    /\ DOMAIN rec = FactorResultFields
    /\ DOMAIN rec.factor_pvalues = {"MKT", "SMB", "HML"}
    /\ DOMAIN rec.regression_summary = {"f_statistic", "f_pvalue", "aic", "bic"}

C2_FactorExposureNeverFails ==
    (pc = "done" /\ call.op = "calculate_factor_exposure")
    => /\ outcome.kind = "return"
       /\ HasFactorResultFields(outcome.value)

\* The business days from the first to the last date of a series.
BusinessDaysOf(series) ==
    IF Len(series) = 0 THEN {}
    ELSE {d \in series[1].d .. series[Len(series)].d : IsBusinessDay(d)}

Overlap(a, f) == Cardinality(BusinessDaysOf(a) \cap BusinessDaysOf(f))

\* The overlap is 30 business days or more, the try block has raised, and
\* the call has returned a record.
C2_Witness ==
    /\ pc = "done"
    /\ call.op = "calculate_factor_exposure"
    /\ Overlap(call.asset_returns, call.factors) >= 30
    /\ prov.last = "except"
    /\ outcome.kind = "return"

-----------------------------------------------------------------------------
(* C3.  With fewer than 30 overlapping business days, the record returned  *)
(* has n_observations equal to the number of overlapping business days     *)
(* when that is at least 1, and to 100 when there is none.                 *)

C3_ShortOverlapObservations ==
    (pc = "done" /\ call.op = "calculate_factor_exposure"
        /\ Overlap(call.asset_returns, call.factors) < 30)
    => /\ outcome.kind = "return"
       /\ outcome.value.n_observations =
             IF Overlap(call.asset_returns, call.factors) >= 1
             THEN Overlap(call.asset_returns, call.factors)
             ELSE 100

\* Two series that start on different days and overlap on 1 to 29 business
\* days, and the record returned for them.
C3_Witness ==
    /\ pc = "done"
    /\ call.op = "calculate_factor_exposure"
    /\ Overlap(call.asset_returns, call.factors) \in 1..29
    /\ Len(call.asset_returns) > Overlap(call.asset_returns, call.factors)
    /\ outcome.kind = "return"
    /\ outcome.value.n_observations = Overlap(call.asset_returns, call.factors)

-----------------------------------------------------------------------------
(* C4.  A /api/multifactor response built from a placeholder record, or    *)
(* served from the cache entry made of one, carries a flag: a field that   *)
(* a response built from a fitted regression does not have.                *)

\* The fields of every response built from a fitted regression.
RegressionResponseFields == FactorResultFields \cup {"ticker", "period", "factor_explanations"}

MultifactorReturned ==
    pc = "done" /\ call.op = "multifactor" /\ outcome.kind = "return"

C4_PlaceholderFlagged ==
    (MultifactorReturned /\ prov.last \in {"overlap", "except"})
    => \E field \in DOMAIN outcome.value : field \notin RegressionResponseFields

-----------------------------------------------------------------------------
(* What a portfolio request asks for, read off its two strings.            *)

Listed(text) == SelectSeq(split(text), LAMBDA piece : Len(strip(piece)) > 0)

ListedTickers ==
    With(Listed(call.tickers), LAMBDA pieces :
         [i \in DOMAIN pieces |-> upper(strip(pieces[i]))])

ListedWeights ==
    With(Listed(call.weights), LAMBDA pieces :
         [i \in DOMAIN pieces |-> parse_float(strip(pieces[i]))])

WeightsParse == \A weights \in {ListedWeights} : \A i \in DOMAIN weights : weights[i].ok

WeightSum ==
    With(ListedWeights, LAMBDA weights : sum([i \in DOMAIN weights |-> weights[i].value]))

\* |total - 100| <= 0.01, as a statement about numbers: it is false of a
\* total that is not a number.
WithinTolerance(total) ==
    /\ IsFinite(total)
    /\ 100 * Abs(total[2] - 100 * total[3]) <= total[3]

PortfolioDone == pc = "done" /\ call.op = "portfolio_capm"

Raised(code, msg) ==
    outcome.kind = "raise" /\ outcome.status_code = code /\ outcome.detail = msg

-----------------------------------------------------------------------------
(* C5.  With as many weights as tickers, and at least one, the request is  *)
(* past weight validation if and only if the sum of the weights is within  *)
(* 0.01 of 100.                                                            *)

C5_WeightValidationIff ==
    (PortfolioDone /\ WeightsParse
        /\ Len(ListedTickers) = Len(ListedWeights) /\ Len(ListedTickers) > 0)
    => (~Raised(400, "Weights must sum to 100") <=> WithinTolerance(WeightSum))

-----------------------------------------------------------------------------
(* C6.  When the ticker list and the weight list read from the request     *)
(* differ in length, or the ticker list is empty, the request ends in the  *)
(* status-400 error raised for that case, with its own message, before     *)
(* any data is fetched.                                                    *)

C6_ListValidationReachesCaller ==
    (PortfolioDone /\ WeightsParse)
    => \A tickers \in {Len(ListedTickers)} : \A weights \in {Len(ListedWeights)} :
       /\ tickers # weights
            => Raised(400, "Tickers and weights must have same length")
       /\ (tickers = weights /\ tickers = 0)
            => Raised(400, "No valid tickers provided")
       /\ (tickers # weights \/ tickers = 0)
            => steps = <<>>

\* Two tickers and one weight, which alone sums to 100, and the request has
\* ended in the length error.
C6_Witness ==
    /\ PortfolioDone
    /\ WeightsParse
    /\ Len(ListedTickers) = 2
    /\ Len(ListedWeights) = 1
    /\ WithinTolerance(WeightSum)
    /\ Raised(400, "Tickers and weights must have same length")

-----------------------------------------------------------------------------
(* C7.  A request whose composite series, alone or aligned with the       *)
(* market, has fewer than 30 rows ends in a status-400 error without a     *)
(* call of calculate_capm; and every record the request returns has        *)
(* n_observations of 30 or more.                                           *)

\* The dates of the returns the provider's history of a ticker gives.
ReturnDates(ticker) ==
    LET answer == Answer(hist, ticker)
    IN  {answer.rows[i].d : i \in 2..Len(answer.rows)}

HasHistory(ticker) ==
    ~Answer(hist, ticker).raises /\ Len(Answer(hist, ticker).rows) > 0

CompositeDates ==
    With(ListedTickers, LAMBDA tickers :
         {d \in ReturnDates(tickers[1]) :
            \A i \in DOMAIN tickers : d \in ReturnDates(tickers[i])})

\* The request is past validation and every listed ticker has a history.
CompositeBuilt ==
    /\ PortfolioDone
    /\ ~Raised(400, "Weights must sum to 100")
    /\ WeightsParse
    /\ \A tickers \in {ListedTickers} :
          /\ Len(tickers) = Len(ListedWeights)
          /\ Len(tickers) > 0
          /\ \A i \in DOMAIN tickers : HasHistory(tickers[i])

CapmCalled == \E i \in DOMAIN steps : steps[i] = <<"calculate_capm">>

C7_ShortCompositeNeverEstimated ==
    /\ (CompositeBuilt /\ Cardinality(CompositeDates) < 30)
            => Raised(400, "Insufficient data for portfolio analysis") /\ ~CapmCalled
    /\ (CompositeBuilt /\ Cardinality(CompositeDates) >= 30 /\ HasHistory(GSPC)
            /\ Cardinality(CompositeDates \cap ReturnDates(GSPC)) < 30)
            => Raised(400, "Not enough overlapping data with market") /\ ~CapmCalled
    /\ (PortfolioDone /\ outcome.kind = "return")
            => outcome.value.n_observations >= 30

-----------------------------------------------------------------------------
(* C8.  Whenever get_fama_french_factors is called again for a ticker in   *)
(* the same process, it returns the frame it returned for that ticker      *)
(* before: the same dates and the same four columns.                       *)

C8_SynthesizerDeterministic ==
    [][\A ticker \in DOMAIN factorLog \cap DOMAIN factorLog' :
            factorLog'[ticker] = factorLog[ticker]]_vars

-----------------------------------------------------------------------------
(* C9.  get_returns fails on a price history of fewer than 2 points, and   *)
(* on n >= 2 points returns the n-1 period-over-period changes; it never   *)
(* returns an empty series as a success.                                   *)

Changes(rows) ==
    [i \in 1..(Len(rows) - 1) |->
        [d |-> rows[i + 1].d,
         v |-> FDiv(FSub(rows[i + 1].close, rows[i].close), rows[i].close)]]

C9_ReturnsContract ==
    (pc = "done" /\ call.op = "get_returns" /\ ~call.answer.raises)
    => /\ Len(call.answer.rows) < 2 => outcome.kind = "raise"
       /\ Len(call.answer.rows) >= 2 => outcome = Return(Changes(call.answer.rows))
       /\ outcome.kind = "return" => Len(outcome.value) > 0

-----------------------------------------------------------------------------
(* C10.  No request changes the state of numpy's global generator, nor     *)
(* anything else the requests share apart from the cache.                  *)

C10_OnlyCacheMutated ==
    [][served' # served => (rng' = rng /\ hashSeed' = hashSeed)]_vars

-----------------------------------------------------------------------------
(* C11.  When the asset series and the market series are the same series   *)
(* of finite returns, on ten or more dates and not constant, and the       *)
(* risk-free rate is a finite number, calculate_capm returns a record      *)
(* whose beta is 1, whose alpha is 0 and whose r_squared is 1: exactly, in *)
(* the arithmetic of the model, and so within 1e-9.                        *)

AllFinite(series) == \A i \in DOMAIN series : IsFinite(series[i].v)

NotConstant(series) == \E i, j \in DOMAIN series : series[i].v # series[j].v

IdenticalSeriesCall ==
    /\ pc = "done"
    /\ call.op = "calculate_capm"
    /\ call.asset_returns = call.market_returns
    /\ Len(call.asset_returns) >= 10
    /\ AllFinite(call.asset_returns)
    /\ NotConstant(call.asset_returns)
    /\ IsFinite(call.risk_free_rate)

C11_IdenticalSeriesUnitBeta ==
    IdenticalSeriesCall
    => /\ outcome.kind = "return"
       /\ outcome.value.beta = One
       /\ outcome.value.alpha = Zero
       /\ outcome.value.r_squared = One

\* The same series of twelve returns on both sides, a risk-free rate that is
\* not zero, and the call has returned.
C11_Witness ==
    /\ IdenticalSeriesCall
    /\ Len(call.asset_returns) = MaxLen
    /\ call.risk_free_rate # Zero
    /\ outcome.kind = "return"

-----------------------------------------------------------------------------
(* C12.  The rows calculate_capm regresses on are exactly the dates that   *)
(* both series have with neither value missing, one row per date carrying  *)
(* the two values the series have on it: a date of only one series is not  *)
(* there, and no value is filled in.  The asset and market columns of the  *)
(* regression have one row per such date, and a returned record's          *)
(* n_observations is the number of these dates.                            *)

RegressedDataset == aligned_data_of(call.asset_returns, call.market_returns)

RegressedDates == {RegressedDataset[i].d : i \in DOMAIN RegressedDataset}

C12_RegressedOnCommonValidDates ==
    (pc = "done" /\ call.op = "calculate_capm")
    => /\ RegressedDates = CommonValidDates(call.asset_returns, call.market_returns)
       /\ Len(RegressedDataset) = Cardinality(RegressedDates)
       /\ \A i \in DOMAIN RegressedDataset :
            /\ RegressedDataset[i].asset
                   = At(call.asset_returns, RegressedDataset[i].d).v
            /\ RegressedDataset[i].market
                   = At(call.market_returns, RegressedDataset[i].d).v
       /\ DOMAIN excess_asset_of(RegressedDataset, call.risk_free_rate)
              = DOMAIN RegressedDataset
       /\ DOMAIN excess_market_of(RegressedDataset, call.risk_free_rate)
              = DOMAIN RegressedDataset
       /\ outcome.kind = "return"
            => outcome.value.n_observations
                   = Cardinality(CommonValidDates(call.asset_returns, call.market_returns))

\* Each series has dates the other has not, a common date has a missing
\* value, and the call has returned a record.
C12_Witness ==
    /\ pc = "done"
    /\ call.op = "calculate_capm"
    /\ Index(call.asset_returns) \ Index(call.market_returns) # {}
    /\ Index(call.market_returns) \ Index(call.asset_returns) # {}
    /\ \E d \in Index(call.asset_returns) \cap Index(call.market_returns) :
            IsNaN(At(call.asset_returns, d).v)
    /\ outcome.kind = "return"
    /\ outcome.value.n_observations
           < Cardinality(Index(call.asset_returns) \cap Index(call.market_returns))

-----------------------------------------------------------------------------
(* C13.  Once a request is past validation and every listed ticker has     *)
(* returns, the composite series has exactly the dates common to the       *)
(* return series of all the listed tickers, one row per date, and its      *)
(* value on a date is the sum, over the positions of the list, of the      *)
(* ticker's return on that date times weight / 100: a ticker listed twice  *)
(* is counted at both positions.  So when the listed tickers all have the  *)
(* same return on each of these dates and the weights sum to 100, the      *)
(* composite is that return.                                               *)

\* The return series the provider's history gives each listed ticker.
ListedReturns ==
    [i \in DOMAIN ListedTickers |-> get_returns(Answer(hist, ListedTickers[i])).value]

\* The first n positions' share of the composite on a date.
RECURSIVE WeightedSum(_, _, _, _)
WeightedSum(returns, weights, d, n) ==
    IF n = 1
    THEN FMul(At(returns[1], d).v, FDiv(weights[1].value, Fin(100, 1)))
    ELSE FAdd(WeightedSum(returns, weights, d, n - 1),
              FMul(At(returns[n], d).v, FDiv(weights[n].value, Fin(100, 1))))

Composite ==
    With(ListedWeights, LAMBDA weights :
         portfolio_returns_of(ListedTickers,
                              [i \in DOMAIN weights |-> weights[i].value], hist)[2])

SameReturns ==
    \A returns \in {ListedReturns} :
        \A d \in CompositeDates : \A i \in DOMAIN returns :
            At(returns[i], d).v = At(returns[1], d).v

C13_CompositeIsWeightedSum ==
    CompositeBuilt
    => \A composite \in {Composite} : \A dates \in {CompositeDates} :
       \A returns \in {ListedReturns} : \A weights \in {ListedWeights} :
           /\ Index(composite) = dates
           /\ Len(composite) = Cardinality(dates)
           /\ \A d \in dates :
                At(composite, d).v = WeightedSum(returns, weights, d, Len(weights))
           /\ (SameReturns /\ WeightSum = Fin(100, 1))
                => \A d \in dates : At(composite, d).v = At(returns[1], d).v

\* Two different tickers with finite weights that sum to 100; their return
\* series overlap on some dates, not on all, and differ on a common date.
C13_Witness ==
    /\ CompositeBuilt
    /\ Len(ListedTickers) = 2
    /\ ListedTickers[1] # ListedTickers[2]
    /\ WeightSum = Fin(100, 1)
    /\ CompositeDates # {}
    /\ CompositeDates # ReturnDates(ListedTickers[1])
    /\ ~SameReturns

-----------------------------------------------------------------------------
(* C14.  A portfolio request makes its calls in one order: get_returns for *)
(* each listing, get_returns for the market, get_risk_free_rate,           *)
(* calculate_capm; and it stops at the first step that fails.  Nothing is  *)
(* fetched unless the two lists have one length, are not empty and pass    *)
(* the check of the weight sum; the market and the risk-free rate are      *)
(* fetched only when the composite has 30 rows or more; calculate_capm is  *)
(* called only when 30 rows or more are common to the composite and the    *)
(* market.  The request leaves the result cache as it found it.            *)

\* Every call a request for these tickers can make, in the order of the code.
FullOrder(tickers) ==
    [i \in DOMAIN tickers |-> <<"get_returns", tickers[i]>>]
        \o << <<"get_returns", GSPC>>, <<"get_risk_free_rate">>, <<"calculate_capm">> >>

\* The request is past the checks of the two lists and of the weight sum.
PastValidation ==
    /\ WeightsParse
    /\ Len(ListedTickers) = Len(ListedWeights)
    /\ Len(ListedTickers) > 0
    /\ ~FGt(FAbs(FSub(WeightSum, Fin(100, 1))), Fin(1, 100))

\* How many calls are due: none before validation is passed, the fetches up
\* to the first listing without data, and so on to the call of calculate_capm.
StepsDue(tickers) ==
    LET without == {i \in DOMAIN tickers : ~HasHistory(tickers[i])}
        dates == CompositeDates
    IN  IF ~PastValidation THEN 0
        ELSE IF without # {} THEN CHOOSE i \in without : \A j \in without : i <= j
        ELSE IF Cardinality(dates) < 30 THEN Len(tickers)
        ELSE IF ~HasHistory(GSPC) THEN Len(tickers) + 1
        ELSE IF Cardinality(dates \cap ReturnDates(GSPC)) < 30 THEN Len(tickers) + 2
        ELSE Len(tickers) + 3

StepsInOrder ==
    PortfolioDone
    => \A tickers \in {ListedTickers} : \A due \in {StepsDue(tickers)} :
          /\ steps = SubSeq(FullOrder(tickers), 1, due)
          /\ steps # <<>> => PastValidation
          /\ (\E i \in DOMAIN steps : steps[i] \in {<<"get_returns", GSPC>>,
                                                    <<"get_risk_free_rate">>})
                => Cardinality(CompositeDates) >= 30
          /\ CapmCalled
                => Cardinality(CompositeDates \cap ReturnDates(GSPC)) >= 30
          /\ due < Len(tickers) + 3 => outcome.kind = "raise"

C14_FixedOrderCacheUntouched == []StepsInOrder /\ [][cache' = cache]_vars

\* The composite was long enough for the market to be fetched, too few rows
\* are common to the two, and the request stopped before calculate_capm with
\* the cache holding the record it held before.
C14_Witness ==
    /\ PortfolioDone
    /\ PastValidation
    /\ Len(steps) = Len(ListedTickers) + 2
    /\ steps[Len(steps)] = <<"get_risk_free_rate">>
    /\ Raised(400, "Not enough overlapping data with market")
    /\ cache # NoFunction

=============================================================================
